---- MODULE Spec2Model ----
(***************************************************************************)
(* State-machine model of open_musiclm/trainer.py: SingleStageTrainer      *)
(* (construction, train / train_step, save / load, data_tuple_to_kwargs)   *)
(* and the routing helpers determine_types / has_duplicates.               *)
(*                                                                         *)
(* Every process of a run owns one trainer object; the per-object fields   *)
(* are functions over the process ranks.  The file system is shared.       *)
(***************************************************************************)
EXTENDS Integers, Sequences, FiniteSets, TLC

\* ------------------------------------------------------------------ bounds
MaxSteps    == 5   \* largest num_train_steps explored
MaxEvery    == 2   \* largest save_model_every / save_results_every explored
MaxAccum    == 2   \* largest grad_accum_every explored
MaxArity    == 2   \* largest number of positional elements in a batch
NumProcs    == 2   \* processes of a distributed run
MaxSessions == 2   \* trainer objects constructed one after the other
CkptSteps   == 2   \* steps explored together with save / load / construction
DistSteps   == 2   \* steps explored with several processes
LongSteps   == 2   \* steps explored on either side of the float32 limit

\* float32 represents every integer up to 2^24; torch.Tensor([0]) is float32
F32Exact == 16777216

Procs == 0 .. (NumProcs - 1)

VARIABLES
    ctor,       \* ctor[p]: p's constructor call: arguments, position, effects, exception
    cfg,        \* constructor arguments of the run (same script in every process)
    results_folder, \* the results folder exists as a directory
    active,     \* ranks that execute in this run
    session,    \* session[p]: how many trainer objects p has constructed
    steps,      \* steps[p]: the 'steps' buffer
    ds_fields,  \* ds_fields[p]: [set, names]; set = FALSE is None
    params,     \* params[p]: the transformer's parameter state
    optim,      \* optim[p]: the optimizer's state
    grad,       \* grad[p]: micro-batches whose gradients sit in .grad
    pc,         \* pc[p]: position of p in train / train_step; "ctor" in the constructor
    mode,       \* mode[p]: "train" inside train(), "step" in a direct train_step()
    mb,         \* mb[p]: micro-batches done in the current train_step
    ops,        \* ops[p]: gradient operations of the current train_step, in order
    applied,    \* applied[p]: the gradients the last optimizer step consumed
    kwargs,     \* kwargs[p]: what the last data_tuple_to_kwargs call returned
    inspected,  \* inspected[p]: the last data_tuple_to_kwargs call ran determine_types
    err,        \* err[p]: exception raised by the last operation, or "none"
    lastOp,     \* lastOp[p]: the last completed caller-level operation
    files,      \* the file system: path -> stored object
    written,    \* written[path]: who wrote the file last, and in which state
    validLog,   \* <<p, s>>: p logged a validation loss keyed by step s
    snapshots,  \* <<p, s>>: p's train_step wrote the step-s checkpoint
    trainStart, \* trainStart[p]: the step counter when train() was entered
    calls,      \* calls[p]: train_step invocations of the current train()
    callbacks,  \* callbacks[p]: log_fn invocations of the current train()
    completed   \* completed[p]: train_steps p's current trainer has completed

vars == << ctor, cfg, results_folder, active, session, steps, ds_fields, params, optim, grad, pc, mode,
           mb, ops, applied, kwargs, inspected, err, lastOp, files, written,
           validLog, snapshots, trainStart, calls, callbacks, completed >>

\* ------------------------------------------------------- batches and routing

\* A positional element of a batch: a tensor of some dtype and rank.
Float2 == [dtype |-> "float", ndim |-> 2]
Float3 == [dtype |-> "float", ndim |-> 3]
Float1 == [dtype |-> "float", ndim |-> 1]
Long2  == [dtype |-> "long",  ndim |-> 2]
Kinds  == {Float2, Float3, Float1, Long2}

\* The shapes a dataset can have: tuples of 1..MaxArity element kinds.
Shapes == UNION { [1 .. n -> Kinds] : n \in 1 .. MaxArity }

\* The batch the data loader yields for a dataset of this shape; "val" tells the
\* positional elements apart.
Batch(shape) == [j \in 1 .. Len(shape) |->
                   [dtype |-> shape[j].dtype, ndim |-> shape[j].ndim, val |-> j]]

\* DATASET_FIELD_TYPE_CONFIG, in insertion order.
DATASET_FIELD_TYPE_CONFIG == << "input_audio" >>

\* is_bearable(el, DATASET_FIELD_TYPE_CONFIG[name])
is_bearable(el, name) ==
    /\ name = "input_audio"
    /\ el.dtype = "float"
    /\ el.ndim \in {2, 3}

Matches(el) == { k \in 1 .. Len(DATASET_FIELD_TYPE_CONFIG) :
                   is_bearable(el, DATASET_FIELD_TYPE_CONFIG[k]) }

Least(S) == CHOOSE x \in S : \A y \in S : x <= y
Most(S)  == CHOOSE x \in S : \A y \in S : y <= x

\* determine_types raises TypeError when some element matches no entry.
determine_types_raises(data) == \E j \in 1 .. Len(data) : Matches(data[j]) = {}

\* determine_types: the first matching name for each element, in position order.
determine_types(data) ==
    [j \in 1 .. Len(data) |-> DATASET_FIELD_TYPE_CONFIG[Least(Matches(data[j]))]]

\* has_duplicates: some name is counted more than once.
has_duplicates(tup) ==
    LET counts == [n \in {tup[j] : j \in 1 .. Len(tup)} |->
                     Cardinality({j \in 1 .. Len(tup) : tup[j] = n})]
    IN  \E n \in DOMAIN counts : counts[n] > 1

\* dict(zip(names, data)): zip stops at the shorter one, a later pair with the
\* same key replaces the earlier one.
ZipDict(names, data) ==
    LET n    == IF Len(names) < Len(data) THEN Len(names) ELSE Len(data)
        keys == {names[j] : j \in 1 .. n}
    IN  [k \in keys |-> data[Most({j \in 1 .. n : names[j] = k})]]

NoFields == [set |-> FALSE, names |-> << >>]

\* data_tuple_to_kwargs(data) on a trainer whose ds_fields is f:
\* the exception it raises ("none" if it returns), ds_fields afterwards, whether
\* determine_types ran, and the returned dict.
KwRaises(f, data) ==
    IF f.set THEN "none"
    ELSE IF determine_types_raises(data) THEN "TypeError"
    ELSE IF has_duplicates(determine_types(data)) THEN "AssertionError"
    ELSE "none"

KwFields(f, data) ==
    IF f.set THEN f
    ELSE IF determine_types_raises(data) THEN f
    ELSE [set |-> TRUE, names |-> determine_types(data)]

KwInspects(f) == ~ f.set

KwResult(f, data) == ZipDict(KwFields(f, data).names, data)

\* ------------------------------------------------------------ configuration

\* The constructor arguments explored: the cadence of validation and snapshots
\* against the number of steps, the gradient settings, and the dataset's shape.
\* cap bounds the steps a caller takes by calling train_step directly.
CadenceConfigs ==
    [ N : 0 .. MaxSteps, M : 1 .. MaxEvery, R : 1 .. MaxEvery,
      G : {1}, clip : {TRUE}, shape : {<< Float2 >>}, cap : {MaxSteps} ]

GradConfigs ==
    [ N : {2}, M : {MaxEvery}, R : 1 .. MaxEvery,
      G : 1 .. MaxAccum, clip : BOOLEAN,
      shape : {<< Float3 >>, << Float2, Float3 >>}, cap : {MaxSteps} ]

RouteConfigs ==
    [ N : {2}, M : {1}, R : {1},
      G : 1 .. MaxAccum, clip : {TRUE}, shape : Shapes, cap : {MaxSteps} ]

Configs == CadenceConfigs \cup GradConfigs \cup RouteConfigs

CkptConfigs ==
    [ N : {CkptSteps}, M : 1 .. MaxEvery, R : {1},
      G : {1}, clip : {TRUE}, shape : {<< Float2 >>}, cap : {CkptSteps} ]

DistConfigs ==
    [ N : 0 .. DistSteps, M : 1 .. MaxEvery, R : 1 .. MaxEvery,
      G : {1}, clip : {TRUE}, shape : {<< Float2 >>}, cap : {DistSteps} ]

\* accelerator.is_main_process: the process of rank 0
is_main(p) == p = 0

\* ---------------------------------------------------------------- the files

\* results_folder / f'semantic.transformer.{steps}.pt', and a path of the
\* caller's outside the results folder
SnapshotPath(s) == << "semantic.transformer", s >>
UserPath        == << "checkpoint", 0 >>
InResults(path) == path[1] = "semantic.transformer"
AllPaths        == {UserPath} \cup {SnapshotPath(s) : s \in 0 .. cfg.cap}

\* transformer.state_dict(): parameter name -> value
state_dict(P) == [weight |-> P]

\* a save that stores a newly initialised optimizer state instead of the current one
SavePkgFreshOptim(P, O) == [model |-> state_dict(P), optim |-> 0]

\* save: pkg = dict(model = ..., optim = ...)
SavePkg(P, O) == [model |-> state_dict(P), optim |-> O]

\* the object the periodic snapshot hands to torch.save
SnapshotObj(P) == state_dict(P)

\* torch.save(obj, path)
Put(fs, path, obj) ==
    [q \in DOMAIN fs \cup {path} |-> IF q = path THEN obj ELSE fs[q]]

\* load: assert path.exists(); pkg['model']; pkg['optim']
LoadRaises(fs, path) ==
    IF path \notin DOMAIN fs THEN "AssertionError"
    ELSE IF "model" \notin DOMAIN fs[path] THEN "KeyError"
    ELSE IF "optim" \notin DOMAIN fs[path] THEN "KeyError"
    ELSE "none"

LoadModel(pkg) == pkg.model.weight
LoadOptim(pkg) == pkg.optim

\* torch.save(obj, str(results_folder / name)) opens the file for writing: it
\* raises when the folder does not exist
TorchSaveRaises(dir) == IF dir THEN "none" ELSE "FileNotFoundError"

\* os.unlink(path), one of the calls rmtree makes
Unlink(fs, path) == [q \in DOMAIN fs \ {path} |-> fs[q]]

\* the entries a listing of the results folder returns
Listing(fs) == {q \in DOMAIN fs : InResults(q)}

\* ------------------------------------------------------------ the train step

\* self.steps += 1 on a float32 buffer
StepsPlusOne(s) == IF s < F32Exact THEN s + 1 ELSE s

\* a validation branch without the is_main test
ShouldValidateAnyRank(p, s) == s % cfg.R = 0

\* self.is_main and not (steps % self.save_results_every)
ShouldValidate(p, s) == is_main(p) /\ s % cfg.R = 0

\* a snapshot branch that tests the step number after the increment
ShouldSaveNextStep(p, s) == is_main(p) /\ (s + 1) % cfg.M = 0

\* self.is_main and not (steps % self.save_model_every)
ShouldSave(p, s) == is_main(p) /\ s % cfg.M = 0

\* while self.steps < self.num_train_steps
KeepTraining(s) == s < cfg.N

\* accelerator.backward on micro-batch k of step s adds its gradients to .grad
Backward(g, s, k) == g \cup {<< s, k >>}

\* the validation forward pass runs under torch.no_grad(): no backward
ValidGrad(g, s) == g

\* a train_step without zero_grad
ZeroGradKeeps(g) == g

\* optim.zero_grad()
ZeroGrad(g) == {}

\* clip (if max_grad_norm is set), optim.step(), optim.zero_grad()
UpdateOps(clip) == (IF clip THEN << "clip" >> ELSE << >>) \o << "step", "zero" >>

\* optim.step(): an update that changes the parameters and the optimizer state;
\* both are written as the number of updates that made them
OptStepParams(P, g) == IF g = {} THEN P ELSE P + 1
OptStepState(O)     == O + 1

Upd(f, p, v) == [f EXCEPT ![p] = v]

\* lastOp: the operation, its path argument, and the parameter and optimizer
\* state it found
NoOp == [op |-> "init", path |-> UserPath, model |-> 0, optim |-> 0]

\* ----------------------------------------------------------------- initial

\* no constructor call in progress: the last one has returned
Constructed == [pc |-> "returned", args |-> << >>, effects |-> {}, err |-> "none",
                listing |-> {}]

InitTrainers ==
    /\ session    = [p \in Procs |-> 1]
    /\ steps      = [p \in Procs |-> 0]
    /\ ds_fields  = [p \in Procs |-> NoFields]
    /\ params     = [p \in Procs |-> 0]
    /\ optim      = [p \in Procs |-> 0]
    /\ grad       = [p \in Procs |-> {}]
    /\ pc         = [p \in Procs |-> "idle"]
    /\ mode       = [p \in Procs |-> "none"]
    /\ mb         = [p \in Procs |-> 0]
    /\ ops        = [p \in Procs |-> << >>]
    /\ applied    = [p \in Procs |-> {}]
    /\ kwargs     = [p \in Procs |-> << >>]
    /\ inspected  = [p \in Procs |-> FALSE]
    /\ err        = [p \in Procs |-> "none"]
    /\ lastOp     = [p \in Procs |-> NoOp]
    /\ results_folder = TRUE
    /\ files      = << >>
    /\ written    = << >>
    /\ validLog   = {}
    /\ snapshots  = {}
    /\ trainStart = [p \in Procs |-> 0]
    /\ calls      = [p \in Procs |-> 0]
    /\ callbacks  = [p \in Procs |-> 0]
    /\ completed  = [p \in Procs |-> 0]

\* one process of a run (of any rank), with every operation of the trainer
Init ==
    /\ ctor = [p \in Procs |-> Constructed]
    /\ cfg \in Configs
    /\ \E p \in Procs : active = {p}
    /\ InitTrainers

\* ------------------------------------------------- caller-level operations

Idle(p) == p \in active /\ pc[p] = "idle"

\* trainer.save(path)
Save(p, path) ==
    /\ Idle(p)
    /\ files'   = Put(files, path, SavePkg(params[p], optim[p]))
    /\ written' = Put(written, path,
                      [by |-> "save", model |-> params[p], optim |-> optim[p],
                       step |-> steps[p]])
    /\ err'     = Upd(err, p, "none")
    /\ lastOp'  = Upd(lastOp, p, [op |-> "save", path |-> path,
                                  model |-> params[p], optim |-> optim[p]])
    /\ pc'      = Upd(pc, p, "ret")
    /\ UNCHANGED << ctor, cfg, results_folder, active, session, steps, ds_fields, params, optim, grad,
                    mode, mb, ops, applied, kwargs, inspected, validLog,
                    snapshots, trainStart, calls, callbacks, completed >>

\* trainer.load(path)
Load(p, path) ==
    /\ Idle(p)
    /\ err'    = Upd(err, p, LoadRaises(files, path))
    /\ lastOp' = Upd(lastOp, p, [op |-> "load", path |-> path,
                                 model |-> params[p], optim |-> optim[p]])
    /\ IF path \in DOMAIN files /\ "model" \in DOMAIN files[path]
       THEN params' = Upd(params, p, LoadModel(files[path]))
       ELSE UNCHANGED params
    /\ IF LoadRaises(files, path) = "none"
       THEN optim' = Upd(optim, p, LoadOptim(files[path]))
       ELSE UNCHANGED optim
    /\ pc' = Upd(pc, p, "ret")
    /\ UNCHANGED << ctor, cfg, results_folder, active, session, steps, ds_fields, grad, mode, mb,
                    ops, applied, kwargs, inspected, files, written, validLog,
                    snapshots, trainStart, calls, callbacks, completed >>

\* trainer.train(log_fn)
CallTrain(p) ==
    /\ Idle(p)
    /\ pc'         = Upd(pc, p, "loop")
    /\ mode'       = Upd(mode, p, "train")
    /\ trainStart' = Upd(trainStart, p, steps[p])
    /\ UNCHANGED << ctor, cfg, results_folder, active, session, steps, ds_fields, params, optim, grad,
                    mb, ops, applied, kwargs, inspected, err, lastOp, files,
                    written, validLog, snapshots, calls, callbacks, completed >>

\* trainer.train_step() called by the caller directly
CallTrainStep(p) ==
    /\ Idle(p)
    /\ steps[p] < cfg.cap
    /\ pc'     = Upd(pc, p, "accum")
    /\ mode'   = Upd(mode, p, "step")
    /\ UNCHANGED << ctor, cfg, results_folder, active, session, steps, ds_fields, params, optim, grad,
                    mb, ops, applied, kwargs, inspected, err, lastOp, files,
                    written, validLog, snapshots, trainStart, calls, callbacks,
                    completed >>

\* ------------------------------------------------------------------- train

\* while self.steps < self.num_train_steps: logs = self.train_step()
TrainLoop(p) ==
    /\ p \in active /\ pc[p] = "loop"
    /\ IF KeepTraining(steps[p])
       THEN /\ pc'    = Upd(pc, p, "accum")
            /\ calls' = Upd(calls, p, calls[p] + 1)
            /\ UNCHANGED lastOp
       ELSE /\ pc'     = Upd(pc, p, "ret")
            /\ lastOp' = Upd(lastOp, p, [NoOp EXCEPT !.op = "train"])
            /\ UNCHANGED calls
    /\ UNCHANGED << ctor, cfg, results_folder, active, session, steps, ds_fields, params, optim, grad,
                    mode, mb, ops, applied, kwargs, inspected, err, files,
                    written, validLog, snapshots, trainStart, callbacks,
                    completed >>

\* log_fn(logs)
Callback(p) ==
    /\ p \in active /\ pc[p] = "callback"
    /\ callbacks' = Upd(callbacks, p, callbacks[p] + 1)
    /\ pc'        = Upd(pc, p, "loop")
    /\ UNCHANGED << ctor, cfg, results_folder, active, session, steps, ds_fields, params, optim, grad,
                    mode, mb, ops, applied, kwargs, inspected, err, lastOp,
                    files, written, validLog, snapshots, trainStart, calls,
                    completed >>

\* the operation has returned (or raised) and the caller goes on
Return(p) ==
    /\ p \in active /\ pc[p] = "ret"
    /\ pc'         = Upd(pc, p, "idle")
    /\ mode'       = Upd(mode, p, "none")
    /\ trainStart' = Upd(trainStart, p, 0)
    /\ calls'      = Upd(calls, p, 0)
    /\ callbacks'  = Upd(callbacks, p, 0)
    /\ lastOp'     = Upd(lastOp, p, NoOp)
    /\ err'        = Upd(err, p, "none")
    /\ UNCHANGED << ctor, cfg, results_folder, active, session, steps, ds_fields, params, optim, grad,
                    mb, ops, applied, kwargs, inspected, files, written,
                    validLog, snapshots, completed >>

\* -------------------------------------------------------------- train_step

\* an exception leaves train_step (and train); the caller keeps the trainer
Raise(p, e) ==
    /\ err'    = Upd(err, p, e)
    /\ pc'     = Upd(pc, p, "ret")
    /\ mb'     = Upd(mb, p, 0)
    /\ ops'    = Upd(ops, p, << >>)
    /\ lastOp' = Upd(lastOp, p, [NoOp EXCEPT !.op = "raised"])

\* one turn of the accumulation loop: next(dl_iter), data_tuple_to_kwargs,
\* the forward pass, accelerator.backward, accum_log
Accum(p) ==
    /\ p \in active /\ pc[p] = "accum"
    /\ LET data == Batch(cfg.shape)
           e    == KwRaises(ds_fields[p], data)
       IN  /\ ds_fields' = Upd(ds_fields, p, KwFields(ds_fields[p], data))
           /\ inspected' = Upd(inspected, p, KwInspects(ds_fields[p]))
           /\ IF e # "none"
              THEN /\ Raise(p, e)
                   /\ UNCHANGED << kwargs, grad >>
              ELSE /\ kwargs' = Upd(kwargs, p, KwResult(ds_fields[p], data))
                   /\ grad'   = Upd(grad, p, Backward(grad[p], steps[p], mb[p] + 1))
                   /\ ops'    = Upd(ops, p, Append(IF mb[p] = 0 THEN << >> ELSE ops[p],
                                                    "backward"))
                   /\ mb'     = Upd(mb, p, mb[p] + 1)
                   /\ pc'     = Upd(pc, p, IF mb[p] + 1 < cfg.G THEN "accum" ELSE "update")
                   /\ UNCHANGED << err, lastOp >>
    /\ UNCHANGED << ctor, cfg, results_folder, active, session, steps, params, optim, applied, files,
                    written, validLog, snapshots, completed, mode, trainStart,
                    calls, callbacks >>

\* clip_grad_norm_ (if max_grad_norm is set), optim.step(), optim.zero_grad(),
\* then the training loss is printed and logged
Update(p) ==
    /\ p \in active /\ pc[p] = "update"
    /\ ops'     = Upd(ops, p, ops[p] \o UpdateOps(cfg.clip))
    /\ applied' = Upd(applied, p, grad[p])
    /\ params'  = Upd(params, p, OptStepParams(params[p], grad[p]))
    /\ optim'   = Upd(optim, p, OptStepState(optim[p]))
    /\ grad'    = Upd(grad, p, ZeroGrad(grad[p]))
    /\ pc'      = Upd(pc, p, "valid")
    /\ UNCHANGED << ctor, cfg, results_folder, active, session, steps, ds_fields, mode, mb, kwargs,
                    inspected, err, lastOp, files, written, validLog, snapshots,
                    trainStart, calls, callbacks, completed >>

\* if self.is_main and not (steps % self.save_results_every): the validation loss
Validate(p) ==
    /\ p \in active /\ pc[p] = "valid"
    /\ IF ShouldValidate(p, steps[p])
       THEN LET data == Batch(cfg.shape)
                e    == KwRaises(ds_fields[p], data)
            IN  /\ ds_fields' = Upd(ds_fields, p, KwFields(ds_fields[p], data))
                /\ inspected' = Upd(inspected, p, KwInspects(ds_fields[p]))
                /\ IF e # "none"
                   THEN /\ Raise(p, e)
                        /\ UNCHANGED << kwargs, grad, validLog >>
                   ELSE /\ kwargs'   = Upd(kwargs, p, KwResult(ds_fields[p], data))
                        /\ grad'     = Upd(grad, p, ValidGrad(grad[p], steps[p]))
                        /\ validLog' = validLog \cup {<< p, steps[p] >>}
                        /\ pc'       = Upd(pc, p, "ckpt")
                        /\ UNCHANGED << err, mb, ops, lastOp >>
       ELSE /\ pc' = Upd(pc, p, "ckpt")
            /\ UNCHANGED << ds_fields, inspected, kwargs, grad, validLog, err,
                            mb, ops, lastOp >>
    /\ UNCHANGED << ctor, cfg, results_folder, active, session, steps, params, optim, applied, files,
                    written, snapshots, completed, mode, trainStart, calls,
                    callbacks >>

\* if self.is_main and not (steps % self.save_model_every): the snapshot;
\* torch.save raises when the results folder is gone, and train_step ends there
Checkpoint(p) ==
    /\ p \in active /\ pc[p] = "ckpt"
    /\ IF ShouldSave(p, steps[p])
       THEN IF TorchSaveRaises(results_folder) = "none"
            THEN /\ files'     = Put(files, SnapshotPath(steps[p]), SnapshotObj(params[p]))
                 /\ written'   = Put(written, SnapshotPath(steps[p]),
                                     [by |-> "snapshot", model |-> params[p],
                                      optim |-> optim[p], step |-> steps[p]])
                 /\ snapshots' = snapshots \cup {<< p, steps[p] >>}
                 /\ pc'        = Upd(pc, p, "incr")
                 /\ UNCHANGED << err, mb, ops, lastOp >>
            ELSE /\ Raise(p, TorchSaveRaises(results_folder))
                 /\ UNCHANGED << files, written, snapshots >>
       ELSE /\ pc' = Upd(pc, p, "incr")
            /\ UNCHANGED << files, written, snapshots, err, mb, ops, lastOp >>
    /\ UNCHANGED << ctor, cfg, results_folder, active, session, steps, ds_fields, params,
                    optim, grad, mode, applied, kwargs, inspected, validLog,
                    trainStart, calls, callbacks, completed >>

\* self.steps += 1; return logs
Increment(p) ==
    /\ p \in active /\ pc[p] = "incr"
    /\ steps'     = Upd(steps, p, StepsPlusOne(steps[p]))
    /\ completed' = Upd(completed, p, completed[p] + 1)
    /\ mb'        = Upd(mb, p, 0)
    /\ IF mode[p] = "train"
       THEN /\ pc' = Upd(pc, p, "callback")
            /\ UNCHANGED lastOp
       ELSE /\ pc'     = Upd(pc, p, "ret")
            /\ lastOp' = Upd(lastOp, p, [NoOp EXCEPT !.op = "train_step"])
    /\ UNCHANGED << ctor, cfg, results_folder, active, session, ds_fields, params, optim, grad, ops,
                    applied, kwargs, inspected, err, files, written, validLog,
                    snapshots, mode, trainStart, calls, callbacks >>

\* ------------------------------------------------------------ construction

Stages == {"semantic", "coarse", "fine"}

\* the arguments of SingleStageTrainer(...): the stage, which auxiliary modules
\* and which data source are passed, and whether valid_frac > 0
CtorArgs ==
    [ stage : Stages, wav2vec : BOOLEAN, neural_codec : BOOLEAN,
      audio_conditioner : BOOLEAN, dataset : BOOLEAN, folder : BOOLEAN,
      valid_frac_pos : BOOLEAN ]

\* a semantic stage that checks the feature extractor only
StageAssertNoConditioner(a) ==
    IF a.stage = "semantic" THEN a.wav2vec
    ELSE IF a.stage = "coarse" THEN a.wav2vec /\ a.audio_conditioner /\ a.neural_codec
    ELSE a.audio_conditioner /\ a.neural_codec

\* the stage's assert
StageAssert(a) ==
    IF a.stage = "semantic" THEN a.audio_conditioner /\ a.wav2vec
    ELSE IF a.stage = "coarse" THEN a.wav2vec /\ a.audio_conditioner /\ a.neural_codec
    ELSE a.audio_conditioner /\ a.neural_codec

\* a constructor call in progress on process p, at its first statement
Entered(a) == [pc |-> "accelerator", args |-> a, effects |-> {}, err |-> "none",
               listing |-> {}]

CtorGoto(p, next, done) ==
    ctor' = [ctor EXCEPT ![p].pc = next, ![p].effects = ctor[p].effects \cup done]

CtorRaise(p, e) == ctor' = [ctor EXCEPT ![p].pc = "failed", ![p].err = e]

OtherVars == << cfg, results_folder, active, session, steps, ds_fields, params, optim, grad, pc,
                mode, mb, ops, applied, kwargs, inspected, err, lastOp, files,
                written, validLog, snapshots, trainStart, calls, callbacks,
                completed >>

\* SingleStageTrainer(transformer, stage, ...) is called on process p; the
\* trainer p holds stays in place until the call returns
CtorCall(p, a) ==
    /\ Idle(p)
    /\ session[p] < MaxSessions
    /\ ctor' = [ctor EXCEPT ![p] = Entered(a)]
    /\ pc'   = Upd(pc, p, "ctor")
    /\ UNCHANGED << cfg, results_folder, active, session, steps, ds_fields, params, optim, grad,
                    mode, mb, ops, applied, kwargs, inspected, err, lastOp, files,
                    written, validLog, snapshots, trainStart, calls, callbacks,
                    completed >>

\* super().__init__(); Accelerator(**accelerate_kwargs); the module attributes
CtorAccelerator(p) ==
    /\ p \in active /\ ctor[p].pc = "accelerator"
    /\ CtorGoto(p, "stage", {"accelerator"})
    /\ UNCHANGED OtherVars

\* if stage == ...: assert ...; self.train_wrapper = ...
CtorStage(p) ==
    /\ p \in active /\ ctor[p].pc = "stage"
    /\ IF StageAssert(ctor[p].args)
       THEN CtorGoto(p, "optim", {"train_wrapper"})
       ELSE CtorRaise(p, "AssertionError")
    /\ UNCHANGED OtherVars

\* register_buffer('steps', ...); get_optimizer(...)
CtorOptim(p) ==
    /\ p \in active /\ ctor[p].pc = "optim"
    /\ CtorGoto(p, "dataset", {"steps", "optimizer"})
    /\ UNCHANGED OtherVars

\* self.ds = dataset; without one, assert exists(folder) and SoundDataset(folder,
\* ..., target_sample_hz = wav2vec.target_sample_hz, ...)
CtorDataset(p) ==
    /\ p \in active /\ ctor[p].pc = "dataset"
    /\ IF ctor[p].args.dataset THEN CtorGoto(p, "split", {})
       ELSE IF ~ ctor[p].args.folder THEN CtorRaise(p, "AssertionError")
       ELSE IF ~ ctor[p].args.wav2vec THEN CtorRaise(p, "AttributeError")
       ELSE CtorGoto(p, "split", {"SoundDataset"})
    /\ UNCHANGED OtherVars

\* if valid_frac > 0: random_split(...) else the shared dataset
CtorSplit(p) ==
    /\ p \in active /\ ctor[p].pc = "split"
    /\ IF ctor[p].args.valid_frac_pos
       THEN CtorGoto(p, "loaders", {"random_split"})
       ELSE CtorGoto(p, "loaders", {"shared_split"})
    /\ UNCHANGED OtherVars

\* get_dataloader twice, accelerator.prepare, cycle(dl) and cycle(valid_dl)
CtorLoaders(p) ==
    /\ p \in active /\ ctor[p].pc = "loaders"
    /\ CtorGoto(p, "folder", {"dataloaders", "prepare", "iterators"})
    /\ UNCHANGED OtherVars

\* len([*results_folder.glob('**/*')]) > 0 and yes_or_no(...): the folder is
\* listed, and if it holds anything the question is printed and input() waits
\* for the operator
CtorFolder(p) ==
    /\ p \in active /\ ctor[p].pc = "folder"
    /\ IF Listing(files) # {}
       THEN CtorGoto(p, "prompt", {"prompt"})
       ELSE CtorGoto(p, "mkdir", {})
    /\ UNCHANGED OtherVars

\* the operator answers and input() returns; on yes rmtree(results_folder)
\* starts: it lists the folder as it is by now (FileNotFoundError if it is gone)
CtorAnswer(p) ==
    /\ p \in active /\ ctor[p].pc = "prompt"
    /\ \E yes \in BOOLEAN :
         IF ~ yes THEN CtorGoto(p, "mkdir", {})
         ELSE IF ~ results_folder
         THEN ctor' = [ctor EXCEPT ![p].pc = "failed", ![p].err = "FileNotFoundError",
                                   ![p].effects = ctor[p].effects \cup {"rmtree"}]
         ELSE ctor' = [ctor EXCEPT ![p].pc = IF Listing(files) = {} THEN "rmdir"
                                             ELSE "unlink",
                                   ![p].effects = ctor[p].effects \cup {"rmtree"},
                                   ![p].listing = Listing(files)]
    /\ UNCHANGED OtherVars

\* rmtree removes the listed entries one by one, in the order of the listing
\* (any order); an entry that is gone by then raises FileNotFoundError
CtorUnlink(p) ==
    /\ p \in active /\ ctor[p].pc = "unlink"
    /\ \E q \in ctor[p].listing :
         IF q \in DOMAIN files
         THEN /\ files'   = Unlink(files, q)
              /\ written' = Unlink(written, q)
              /\ ctor'    = [ctor EXCEPT ![p].listing = ctor[p].listing \ {q},
                                         ![p].pc = IF ctor[p].listing = {q} THEN "rmdir"
                                                   ELSE "unlink"]
         ELSE /\ CtorRaise(p, "FileNotFoundError")
              /\ UNCHANGED << files, written >>
    /\ UNCHANGED << cfg, results_folder, active, session, steps, ds_fields, params,
                    optim, grad, pc, mode, mb, ops, applied, kwargs, inspected, err,
                    lastOp, validLog, snapshots, trainStart, calls, callbacks,
                    completed >>

\* rmtree ends with os.rmdir(results_folder): OSError when a file has been
\* written to the folder since the listing, FileNotFoundError when it is gone
CtorRmdir(p) ==
    /\ p \in active /\ ctor[p].pc = "rmdir"
    /\ IF ~ results_folder
       THEN CtorRaise(p, "FileNotFoundError") /\ UNCHANGED results_folder
       ELSE IF Listing(files) # {}
       THEN CtorRaise(p, "OSError") /\ UNCHANGED results_folder
       ELSE CtorGoto(p, "mkdir", {}) /\ results_folder' = FALSE
    /\ UNCHANGED << cfg, active, session, steps, ds_fields, params, optim, grad, pc,
                    mode, mb, ops, applied, kwargs, inspected, err, lastOp, files,
                    written, validLog, snapshots, trainStart, calls, callbacks,
                    completed >>

\* self.results_folder.mkdir(parents = True, exist_ok = True)
CtorMkdir(p) ==
    /\ p \in active /\ ctor[p].pc = "mkdir"
    /\ CtorGoto(p, "trackers", {"mkdir"})
    /\ results_folder' = TRUE
    /\ UNCHANGED << cfg, active, session, steps, ds_fields, params, optim, grad, pc,
                    mode, mb, ops, applied, kwargs, inspected, err, lastOp, files,
                    written, validLog, snapshots, trainStart, calls, callbacks,
                    completed >>

\* accelerator.init_trackers("semantic", config = hps)
CtorTrackers(p) ==
    /\ p \in active /\ ctor[p].pc = "trackers"
    /\ CtorGoto(p, "done", {"init_trackers"})
    /\ UNCHANGED OtherVars

\* the call returns and the caller holds the new trainer: steps 0, ds_fields
\* None, a newly initialised transformer and optimizer, a new tracker run;
\* or the call has raised and the caller keeps the trainer it had
CtorReturn(p) ==
    /\ p \in active /\ ctor[p].pc \in {"done", "failed"}
    /\ ctor' = [ctor EXCEPT ![p] = Constructed]
    /\ pc'   = Upd(pc, p, "idle")
    /\ IF ctor[p].pc = "done"
       THEN /\ session'   = Upd(session, p, session[p] + 1)
            /\ steps'     = Upd(steps, p, 0)
            /\ ds_fields' = Upd(ds_fields, p, NoFields)
            /\ params'    = Upd(params, p, 0)
            /\ optim'     = Upd(optim, p, 0)
            /\ grad'      = Upd(grad, p, {})
            /\ applied'   = Upd(applied, p, {})
            /\ kwargs'    = Upd(kwargs, p, << >>)
            /\ inspected' = Upd(inspected, p, FALSE)
            /\ ops'       = Upd(ops, p, << >>)
            /\ completed' = Upd(completed, p, 0)
            /\ validLog'  = {x \in validLog : x[1] # p}
            /\ snapshots' = {x \in snapshots : x[1] # p}
       ELSE UNCHANGED << session, steps, ds_fields, params, optim, grad, applied,
                         kwargs, inspected, ops, completed, validLog, snapshots >>
    /\ UNCHANGED << cfg, results_folder, active, mode, mb, err, lastOp, files, written, trainStart,
                    calls, callbacks >>

\* the statements of the constructor on process p
Constructing(p) ==
    \/ CtorAccelerator(p)
    \/ CtorStage(p)
    \/ CtorOptim(p)
    \/ CtorDataset(p)
    \/ CtorSplit(p)
    \/ CtorLoaders(p)
    \/ CtorFolder(p)
    \/ CtorAnswer(p)
    \/ CtorUnlink(p)
    \/ CtorRmdir(p)
    \/ CtorMkdir(p)
    \/ CtorTrackers(p)
    \/ CtorReturn(p)

\* ---------------------------------------------------------- specifications

\* the path the caller saves to: one of its own, outside the results folder
SavePaths == {UserPath}

\* a semantic-stage trainer over a dataset the caller passes
SemanticArgs ==
    [ stage |-> "semantic", wav2vec |-> TRUE, neural_codec |-> FALSE,
      audio_conditioner |-> TRUE, dataset |-> TRUE, folder |-> FALSE,
      valid_frac_pos |-> TRUE ]

SaveSome(p)     == \E path \in SavePaths : Save(p, path)
LoadSome(p)     == \E path \in AllPaths : Load(p, path)
CtorCallSome(p) == \E a \in {SemanticArgs} : CtorCall(p, a)

Training(p) ==
    \/ TrainLoop(p)
    \/ Accum(p)
    \/ Update(p)
    \/ Validate(p)
    \/ Checkpoint(p)
    \/ Increment(p)
    \/ Callback(p)
    \/ Return(p)

\* train and train_step on one process
Next ==
    \E p \in Procs :
        \/ CallTrain(p)
        \/ CallTrainStep(p)
        \/ Training(p)

Spec == Init /\ [][Next]_vars

\* one process, with save, load and the construction of a new trainer as well
InitCkpt ==
    /\ ctor = [p \in Procs |-> Constructed]
    /\ cfg \in CkptConfigs
    /\ \E p \in Procs : active = {p}
    /\ InitTrainers

NextCkpt ==
    \E p \in Procs :
        \/ CallTrain(p)
        \/ CallTrainStep(p)
        \/ SaveSome(p)
        \/ LoadSome(p)
        \/ CtorCallSome(p)
        \/ Constructing(p)
        \/ Training(p)

SpecCkpt == InitCkpt /\ [][NextCkpt]_vars

\* every process of a distributed run executes train
InitDist ==
    /\ ctor = [p \in Procs |-> Constructed]
    /\ cfg \in DistConfigs
    /\ active = Procs
    /\ InitTrainers

NextDist ==
    \E p \in Procs :
        \/ CallTrain(p)
        \/ Training(p)

SpecDist == InitDist /\ [][NextDist]_vars

\* a run of more than 2^24 steps that validates and snapshots every 2^24 steps
LongConfigs ==
    [ N : {F32Exact}, M : {F32Exact}, R : {F32Exact},
      G : {1}, clip : {TRUE}, shape : {<< Float2 >>}, cap : {F32Exact + LongSteps} ]

\* process p after s >= 2 train_steps called one after the other on the trainer
\* it constructed: the primary process validated and wrote a snapshot at step 0
LateTrainer(p, s) ==
    /\ session    = [q \in Procs |-> 1]
    /\ steps      = [q \in Procs |-> IF q = p THEN s ELSE 0]
    /\ completed  = [q \in Procs |-> IF q = p THEN s ELSE 0]
    /\ params     = [q \in Procs |-> IF q = p THEN s ELSE 0]
    /\ optim      = [q \in Procs |-> IF q = p THEN s ELSE 0]
    /\ ds_fields  = [q \in Procs |-> IF q = p THEN KwFields(NoFields, Batch(cfg.shape))
                                    ELSE NoFields]
    /\ kwargs     = [q \in Procs |-> IF q = p THEN KwResult(NoFields, Batch(cfg.shape))
                                    ELSE << >>]
    /\ inspected  = [q \in Procs |-> FALSE]
    /\ grad       = [q \in Procs |-> {}]
    /\ applied    = [q \in Procs |-> IF q = p THEN {<< s - 1, 1 >>} ELSE {}]
    /\ ops        = [q \in Procs |-> IF q = p THEN << "backward" >> \o UpdateOps(cfg.clip)
                                    ELSE << >>]
    /\ pc         = [q \in Procs |-> "idle"]
    /\ mode       = [q \in Procs |-> "none"]
    /\ mb         = [q \in Procs |-> 0]
    /\ err        = [q \in Procs |-> "none"]
    /\ lastOp     = [q \in Procs |-> NoOp]
    /\ trainStart = [q \in Procs |-> 0]
    /\ calls      = [q \in Procs |-> 0]
    /\ callbacks  = [q \in Procs |-> 0]
    /\ results_folder = TRUE
    /\ files      = IF is_main(p) THEN Put(<< >>, SnapshotPath(0), SnapshotObj(1))
                    ELSE << >>
    /\ written    = IF is_main(p)
                    THEN Put(<< >>, SnapshotPath(0),
                             [by |-> "snapshot", model |-> 1, optim |-> 1, step |-> 0])
                    ELSE << >>
    /\ validLog   = IF is_main(p) THEN {<< p, 0 >>} ELSE {}
    /\ snapshots  = IF is_main(p) THEN {<< p, 0 >>} ELSE {}

\* one process, LongSteps steps before the float32 buffer reaches 2^24
InitLong ==
    /\ ctor = [p \in Procs |-> Constructed]
    /\ cfg \in LongConfigs
    /\ \E p \in Procs : active = {p} /\ LateTrainer(p, F32Exact - LongSteps)

\* train_step called directly, at most cfg.cap times in all
CallTrainStepLong(p) == completed[p] < cfg.cap /\ CallTrainStep(p)

LoadSaved(p) == \E path \in SavePaths : Load(p, path)

NextLong ==
    \E p \in Procs :
        \/ CallTrain(p)
        \/ CallTrainStepLong(p)
        \/ SaveSome(p)
        \/ LoadSaved(p)
        \/ Training(p)

SpecLong == InitLong /\ [][NextLong]_vars

\* a train_step called directly
Stepping(p) ==
    \/ Accum(p)
    \/ Update(p)
    \/ Validate(p)
    \/ Checkpoint(p)
    \/ Increment(p)
    \/ Return(p)

\* train_step called directly, at most cfg.cap times whether or not it returns
\* (optim counts the optimizer steps taken, one per call)
CallTrainStepCapped(p) == optim[p] < cfg.cap /\ CallTrainStep(p)

CtorCallAny(p) == \E a \in CtorArgs : CtorCall(p, a)

\* the primary process of a run takes train_steps while, on another process,
\* trainers are constructed with any arguments on the same results folder
InitCtor ==
    /\ ctor = [p \in Procs |-> Constructed]
    /\ cfg \in { c \in CkptConfigs : c.M = 1 }
    /\ \E c \in Procs : ~ is_main(c) /\ active = {p \in Procs : is_main(p)} \cup {c}
    /\ InitTrainers

NextCtor ==
    \E p \in Procs :
        \/ is_main(p) /\ CallTrainStepCapped(p)
        \/ is_main(p) /\ Stepping(p)
        \/ ~ is_main(p) /\ CtorCallAny(p)
        \/ ~ is_main(p) /\ Constructing(p)

SpecCtor == InitCtor /\ [][NextCtor]_vars

\* ================================================================== claims

StepsOf(S, p) == { x[2] : x \in { y \in S : y[1] = p } }

\* C1: on the primary process, a train() entered with the step counter at 0
\* and returning normally has invoked train_step N times and the callback once
\* after each, leaves the counter at N, has written the snapshot of step s for
\* exactly the s in 0..N-1 with s mod M = 0 and has logged a validation loss for
\* exactly the s in 0..N-1 with s mod R = 0.
C1_TrainRunsNSteps ==
    \A p \in active :
        (is_main(p) /\ mode[p] = "train" /\ trainStart[p] = 0) =>
            /\ pc[p] = "callback" => calls[p] = callbacks[p] + 1
            /\ pc[p] = "loop" => calls[p] = callbacks[p]
            /\ (pc[p] = "ret" /\ lastOp[p].op = "train") =>
                 /\ err[p] = "none"
                 /\ calls[p] = cfg.N
                 /\ callbacks[p] = cfg.N
                 /\ steps[p] = cfg.N
                 /\ completed[p] = cfg.N
                 /\ StepsOf(snapshots, p) = { s \in 0 .. cfg.N - 1 : s % cfg.M = 0 }
                 /\ DOMAIN files = { SnapshotPath(s) : s \in { t \in 0 .. cfg.N - 1 : t % cfg.M = 0 } }
                 /\ StepsOf(validLog, p) = { s \in 0 .. cfg.N - 1 : s % cfg.R = 0 }

\* the spec's example: N = 5, M = R = 2 gives snapshots and validation at 0, 2, 4
C1_Witness ==
    \E p \in active :
        /\ is_main(p) /\ pc[p] = "ret" /\ lastOp[p].op = "train" /\ trainStart[p] = 0
        /\ cfg.N = 5 /\ cfg.M = 2 /\ cfg.R = 2
        /\ calls[p] = 5 /\ callbacks[p] = 5 /\ steps[p] = 5
        /\ StepsOf(snapshots, p) = {0, 2, 4}
        /\ StepsOf(validLog, p) = {0, 2, 4}

\* C2: the step counter starts at 0, every completed train_step raises it by
\* exactly 1 on primary and non-primary processes alike, whether or not the
\* validation and snapshot branches fired, and no operation lowers the counter
\* of a trainer (train, train_step, save, load).
C2_StepCounter ==
    /\ [](\A p \in Procs : completed[p] = 0 => steps[p] = 0)
    /\ [][ \A p \in Procs :
             /\ (session'[p] = session[p]) => steps'[p] >= steps[p]
             /\ (completed'[p] = completed[p] + 1) => steps'[p] = steps[p] + 1
             /\ (completed'[p] = completed[p] /\ session'[p] = session[p]) =>
                    steps'[p] = steps[p] ]_vars

\* C2 below the float32 limit: the same, for train_steps entered with the
\* counter under 2^24
C2_ExactBelowLimit ==
    /\ [](\A p \in Procs : completed[p] = 0 => steps[p] = 0)
    /\ [][ \A p \in Procs :
             /\ (session'[p] = session[p]) => steps'[p] >= steps[p]
             /\ (completed'[p] = completed[p] + 1 /\ steps[p] < F32Exact) =>
                    steps'[p] = steps[p] + 1
             /\ (completed'[p] = completed[p] /\ session'[p] = session[p]) =>
                    steps'[p] = steps[p] ]_vars

\* a train_step has completed with the counter at 2^24 before and after
C2_Saturated ==
    \E p \in active :
        /\ pc[p] = "ret" /\ lastOp[p].op = "train_step"
        /\ steps[p] = F32Exact /\ completed[p] = F32Exact + 1

\* a load that has just returned or raised on process p
Loaded(p) == p \in active /\ pc[p] = "ret" /\ lastOp[p].op = "load"

\* C3: save(path), any further training, then load(path) of the file save wrote:
\* load returns, and the parameters and the optimizer state are again the P and
\* O that save found (so the loss of a batch, a function of the parameters, is
\* what it was at save time).
C3_SaveLoadRoundTrip ==
    \A p \in Procs :
        (Loaded(p) /\ lastOp[p].path \in DOMAIN written
                   /\ written[lastOp[p].path].by = "save") =>
            /\ err[p] = "none"
            /\ params[p] = written[lastOp[p].path].model
            /\ optim[p] = written[lastOp[p].path].optim

\* a load that replaced parameters and optimizer state changed by training
C3_Witness ==
    \E p \in Procs :
        /\ Loaded(p) /\ err[p] = "none"
        /\ written[lastOp[p].path].by = "save"
        /\ lastOp[p].model # params[p]
        /\ lastOp[p].optim # optim[p]
        /\ completed[p] > written[lastOp[p].path].step

\* C4: load on the path of a periodic snapshot reads the record back and
\* restores the model's weights.
C4_LoadReadsSnapshot ==
    \A p \in Procs :
        (Loaded(p) /\ lastOp[p].path \in DOMAIN written
                   /\ written[lastOp[p].path].by = "snapshot") =>
            /\ "model" \in DOMAIN files[lastOp[p].path]
            /\ err[p] = "none"
            /\ params[p] = written[lastOp[p].path].model

\* C5: loading a checkpoint written while the counter was k into a newly
\* constructed trainer sets that trainer's step counter to k.
C5_LoadRestoresSteps ==
    \A p \in Procs :
        (Loaded(p) /\ err[p] = "none" /\ session[p] > 1 /\ completed[p] = 0) =>
            steps[p] = written[lastOp[p].path].step

\* data_tuple_to_kwargs has returned a dict on process p
Routed(p) == p \in active /\ ds_fields[p].set /\ DOMAIN kwargs[p] # {}

\* C6: once data_tuple_to_kwargs has returned, the batch elements are keyed by
\* the cached names in position order: element j is found under name j.
C6_RoutesInPositionOrder ==
    \A p \in Procs :
        Routed(p) =>
            \A j \in 1 .. Len(cfg.shape) :
                /\ ds_fields[p].names[j] \in DOMAIN kwargs[p]
                /\ kwargs[p][ds_fields[p].names[j]] = Batch(cfg.shape)[j]

\* C7: the cached field mapping is None or a tuple of pairwise distinct names.
C7_CachedNamesDistinct ==
    \A p \in Procs :
        ds_fields[p].set =>
            \A j, k \in 1 .. Len(ds_fields[p].names) :
                j # k => ds_fields[p].names[j] # ds_fields[p].names[k]

\* the modules each stage requires, as the specification lists them
RequiredModules(stage) ==
    IF stage = "semantic" THEN {"wav2vec", "audio_conditioner"}
    ELSE IF stage = "coarse" THEN {"wav2vec", "audio_conditioner", "neural_codec"}
    ELSE {"audio_conditioner", "neural_codec"}

Supplied(a) ==
    { m \in {"wav2vec", "audio_conditioner", "neural_codec"} : a[m] }

DataEffects == { "SoundDataset", "random_split", "shared_split", "dataloaders",
                 "prepare", "iterators", "prompt", "rmtree", "mkdir" }

\* C8: when a module the stage requires is absent the constructor cannot get
\* past the stage's check, fails there with an AssertionError, and has by then
\* built or split no dataset, made no iterator and not touched the results folder.
C8_MissingModuleFailsEarly ==
    \A p \in Procs :
        (/\ ctor[p].pc # "returned"
         /\ ~ (RequiredModules(ctor[p].args.stage) \subseteq Supplied(ctor[p].args))) =>
            /\ ctor[p].pc \in {"accelerator", "stage", "failed"}
            /\ ctor[p].pc = "failed" => ctor[p].err = "AssertionError"
            /\ ctor[p].effects \cap DataEffects = {}

\* the spec's example: 'semantic' without an audio conditioner, called while
\* the results folder holds a snapshot
C8_Witness ==
    \E p \in Procs :
        /\ ctor[p].pc = "failed" /\ ctor[p].err = "AssertionError"
        /\ ctor[p].args.stage = "semantic" /\ ~ ctor[p].args.audio_conditioner
        /\ ctor[p].args.wav2vec /\ ctor[p].args.folder
        /\ \E q \in DOMAIN files : InResults(q)
        /\ ctor[p].effects \cap DataEffects = {}

\* C9: with several processes, a validation loss is logged and a snapshot is
\* written by the primary process only, and processes that have completed the
\* same number of train_steps have the same step counter.
C9_OnlyMainHasSideEffects ==
    /\ \A x \in validLog \cup snapshots : is_main(x[1])
    /\ \A path \in DOMAIN files :
           \E x \in snapshots : is_main(x[1]) /\ path = SnapshotPath(x[2])
    /\ \A p, q \in active :
           completed[p] = completed[q] => steps[p] = steps[q]
    /\ \A p \in active : steps[p] = completed[p]

\* a non-primary process is through the step at which the primary one validated
\* and wrote a snapshot
C9_Witness ==
    \E p, q \in active :
        /\ is_main(p) /\ ~ is_main(q)
        /\ << p, 0 >> \in validLog /\ << p, 0 >> \in snapshots
        /\ completed[q] = 2 /\ completed[p] = 2 /\ steps[q] = steps[p]
        /\ StepsOf(validLog, q) = {} /\ StepsOf(snapshots, q) = {}

\* the gradient operations of a complete train_step
ExpectedOps ==
    [k \in 1 .. cfg.G |-> "backward"]
        \o (IF cfg.clip THEN << "clip" >> ELSE << >>) \o << "step", "zero" >>

\* C10: a train_step does grad_accum_every backward passes, clips iff a maximum
\* norm is set, takes one optimizer step and zeroes the gradients, in this order;
\* the optimizer step consumes exactly this step's micro-batches, and nothing is
\* left in the gradients afterwards, through validation and between steps.
C10_GradientOrder ==
    \A p \in active :
        /\ pc[p] = "update" =>
             /\ ops[p] = [k \in 1 .. cfg.G |-> "backward"]
             /\ grad[p] = { << steps[p], k >> : k \in 1 .. cfg.G }
        /\ pc[p] \in {"valid", "ckpt", "incr"} =>
             /\ ops[p] = ExpectedOps
             /\ applied[p] = { << steps[p], k >> : k \in 1 .. cfg.G }
        /\ pc[p] \notin {"accum", "update"} => grad[p] = {}
        /\ pc[p] = "accum" => grad[p] = { << steps[p], k >> : k \in 1 .. mb[p] }

\* the second step of a run with accumulation and clipping, after validation
C10_Witness ==
    \E p \in active :
        /\ pc[p] = "incr" /\ steps[p] = 1 /\ cfg.G = 2 /\ cfg.clip
        /\ << p, 1 >> \in validLog
        /\ ops[p] = << "backward", "backward", "clip", "step", "zero" >>
        /\ applied[p] = { << 1, 1 >>, << 1, 2 >> }

====
